---- MODULE Spec2Model ----
(***************************************************************************)
(* Authentication back end of Auth-System-MERN: the user store, the        *)
(* request handlers of auth.controller.js split at the awaits where        *)
(* another request can run, the session-token middleware, and the hourly   *)
(* sweep of unverified accounts.  Time is Date.now() in milliseconds.      *)
(* Requests come from any number of clients, so the per-address rate       *)
(* limiters on signup, login and forgot-password do not bound what the     *)
(* clients do together.                                                    *)
(***************************************************************************)
EXTENDS Integers, Sequences, FiniteSets, TLC

(***************************************************************************)
(* Bounds of the model.                                                    *)
(***************************************************************************)
MaxIds == 2
MaxResets == 2
MaxHeld == 1
MaxTicks == 2
MaxHits == 5

Slots == {"r1", "r2"}
Emails == {"a@x.com", "b@x.com"}
Passwords == {"Passw0rd!", "N3wPassw0rd"}
EmailInputs == Emails \cup {""}
PasswordInputs == Passwords \cup {"", "short"}
NameInputs == {"A", ""}
Codes == {"123456", "654321"}
CodeInputs == Codes \cup {"000000"}
Salts == {"salt"}

(***************************************************************************)
(* Durations, in milliseconds unless named otherwise.                      *)
(***************************************************************************)
HOUR == 60 * 60 * 1000
DAY == 24 * HOUR
\* A verification code that lives for one hour.
VerificationTTLHour == 60 * 60 * 1000
VerificationTTL == 24 * 60 * 60 * 1000
\* A reset token that lives for one day.
ResetTTLDay == 24 * 60 * 60 * 1000
ResetTTL == 60 * 60 * 1000
JwtExpiresInSec == 7 * 24 * 60 * 60
CookieMaxAge == 7 * 24 * 60 * 60 * 1000
SaltRounds == 12
\* A validation that lets passwords of four characters through.
MinPasswordLengthHalf == 8 \div 2
MinPasswordLength == 8

JWT_SECRET == "JWT_SECRET"
AttackerKey == "attacker-key"

VARIABLES users, nextId, nextReset, now, ticks, req, sweep, resp, held, hits, nodeEnv,
          store, calls

vars == <<users, nextId, nextReset, now, ticks, req, sweep, resp, held, hits, nodeEnv,
          store, calls>>

(***************************************************************************)
(* Credential hasher: bcrypt embeds the cost and the salt in the digest;   *)
(* compare re-hashes the plaintext with the digest's own salt.             *)
(***************************************************************************)
\* A hasher that does no work: no rounds, no salt, the input as its digest.
BcryptHashNoWork(password, rounds, salt) ==
    [rounds |-> 0, salt |-> "", digest |-> <<0, "", password>>]

BcryptHash(password, rounds, salt) ==
    [rounds |-> rounds, salt |-> salt, digest |-> <<rounds, salt, password>>]

\* A comparison that accepts every password.
BcryptCompareAny(password, hash) == TRUE

BcryptCompare(password, hash) ==
    hash = BcryptHash(password, hash.rounds, hash.salt)

(***************************************************************************)
(* Token issuer: HS256 over the payload {userId, iat, exp}, in seconds.    *)
(***************************************************************************)
Mac(userId, iat, exp, key) == <<userId, iat, exp, key>>

JwtSign(userId, secret, t) ==
    LET iat == t \div 1000
        exp == iat + JwtExpiresInSec
    IN [userId |-> userId, iat |-> iat, exp |-> exp,
        sig |-> Mac(userId, iat, exp, secret)]

\* A verification that takes a token to live for one day.
JwtVerifyOneDay(tok, secret, t) ==
    /\ tok.sig = Mac(tok.userId, tok.iat, tok.exp, secret)
    /\ (t \div 1000) < tok.iat + 24 * 60 * 60

\* A verification that reads the payload without checking the signature.
JwtVerifyUnsigned(tok, secret, t) ==
    (t \div 1000) < tok.exp

JwtVerify(tok, secret, t) ==
    /\ tok.sig = Mac(tok.userId, tok.iat, tok.exp, secret)
    /\ (t \div 1000) < tok.exp

(***************************************************************************)
(* Cookies a client can send: none, a token it holds, or a held token      *)
(* altered in its payload or re-signed with a key that is not the secret.  *)
(***************************************************************************)
Tampered(tok) ==
    {[tok EXCEPT !.userId = i] : i \in (1..MaxIds) \ {tok.userId}}
    \cup {[tok EXCEPT !.exp = @ + JwtExpiresInSec]}
    \cup {[tok EXCEPT !.sig = Mac(tok.userId, tok.iat, tok.exp, AttackerKey)]}

CookieInputs ==
    {{}} \cup {{t} : t \in held} \cup {{x} : x \in UNION {Tampered(t) : t \in held}}

(***************************************************************************)
(* The user collection.  An optional field is a set with at most one       *)
(* element; the empty set is an absent field.                              *)
(***************************************************************************)
\* A signup that stores the new record without a verification code.
NewUserNoCode(id, email, hash, name, code, expiresAt) ==
    [_id |-> id, email |-> email, password |-> hash, name |-> name,
     isVerified |-> FALSE,
     verificationToken |-> {},
     verificationTokenExpiresAt |-> {expiresAt},
     resetPasswordToken |-> {},
     resetPasswordExpiresAt |-> {},
     lastLogin |-> {}]

NewUser(id, email, hash, name, code, expiresAt) ==
    [_id |-> id, email |-> email, password |-> hash, name |-> name,
     isVerified |-> FALSE,
     verificationToken |-> {code},
     verificationTokenExpiresAt |-> {expiresAt},
     resetPasswordToken |-> {},
     resetPasswordExpiresAt |-> {},
     lastLogin |-> {}]

ByEmail(email) == {u \in users : u.email = email}
ById(id) == {u \in users : u._id = id}

\* The verification-code lookup without the expiry condition.
ByVerificationTokenNoExpiry(code, t) ==
    {u \in users : code \in u.verificationToken}

ByVerificationToken(code, t) ==
    {u \in users : /\ code \in u.verificationToken
                   /\ \E e \in u.verificationTokenExpiresAt : e > t}

\* The reset-token lookup with an expiry that is still good at its own instant.
ByResetTokenInclusive(token, t) ==
    {u \in users : /\ token \in u.resetPasswordToken
                   /\ \E e \in u.resetPasswordExpiresAt : e >= t}

\* The reset-token lookup matching any record with an unexpired reset token.
ByResetTokenAnyToken(token, t) ==
    {u \in users : \E e \in u.resetPasswordExpiresAt : e > t}

ByResetToken(token, t) ==
    {u \in users : /\ token \in u.resetPasswordToken
                   /\ \E e \in u.resetPasswordExpiresAt : e > t}

\* The sweep filter with an expiry that counts as passed at its own instant.
ExpiredUnverifiedInclusive(t) ==
    {u \in users : /\ u.isVerified = FALSE
                   /\ \E e \in u.verificationTokenExpiresAt : e <= t}

ExpiredUnverified(t) ==
    {u \in users : /\ u.isVerified = FALSE
                   /\ \E e \in u.verificationTokenExpiresAt : e < t}

\* Unique index on email: an insert of a second document with the same email fails.
DuplicateKey(email) == ByEmail(email) # {}

\* document.save() of a loaded document: an update of the modified paths by _id.
\* Stored(id) is the record as it stands in the store, changed the record
\* after the handler's assignments.
Stored(id) == CHOOSE u \in ById(id) : TRUE

UpdateById(id, changed) == (users \ ById(id)) \cup {changed}

(***************************************************************************)
(* The fields each handler assigns on the loaded document before save().   *)
(***************************************************************************)
loginChange(u, at) == [u EXCEPT !.lastLogin = {at}]

\* A verification that marks the record and leaves the code in place.
verifyChangeKeepCode(u) == [u EXCEPT !.isVerified = TRUE]

verifyChange(u) ==
    [u EXCEPT !.isVerified = TRUE,
              !.verificationToken = {},
              !.verificationTokenExpiresAt = {}]

\* A forgot-password that stores the token without its expiry.
forgotChangeNoExpiry(u, resetToken, resetTokenExpiresAt) ==
    [u EXCEPT !.resetPasswordToken = {resetToken}]

forgotChange(u, resetToken, resetTokenExpiresAt) ==
    [u EXCEPT !.resetPasswordToken = {resetToken},
              !.resetPasswordExpiresAt = {resetTokenExpiresAt}]

\* A password reset that also sends the account back to unverified.
resetChangeUnverify(u, hashedPassword) ==
    [u EXCEPT !.password = hashedPassword,
              !.isVerified = FALSE,
              !.resetPasswordToken = {},
              !.resetPasswordExpiresAt = {}]

\* A password reset that leaves the reset token in place.
resetChangeKeepToken(u, hashedPassword) ==
    [u EXCEPT !.password = hashedPassword]

resetChange(u, hashedPassword) ==
    [u EXCEPT !.password = hashedPassword,
              !.resetPasswordToken = {},
              !.resetPasswordExpiresAt = {}]

(***************************************************************************)
(* The options of res.cookie("token", ...) and of res.clearCookie.         *)
(***************************************************************************)
\* Cookie options with the secure flag set outside development.
cookieOptionsSecureOffDev(env) ==
    [name |-> "token", httpOnly |-> TRUE, secure |-> env # "development",
     maxAge |-> {7 * 24 * 60 * 60 * 1000}, sameSite |-> "strict"]

cookieOptions(env) ==
    [name |-> "token", httpOnly |-> TRUE, secure |-> env = "production",
     maxAge |-> {7 * 24 * 60 * 60 * 1000}, sameSite |-> "strict"]

clearCookieOptions(env) ==
    [name |-> "token", httpOnly |-> TRUE, secure |-> env = "production",
     maxAge |-> {}, sameSite |-> "strict"]

(***************************************************************************)
(* Requests in flight and the response written by the latest step.         *)
(***************************************************************************)
Idle ==
    [pc |-> "idle", email |-> "", password |-> "", name |-> "",
     code |-> "", uid |-> 0, at |-> 0, token |-> 0, cookie |-> {}]

NoResp ==
    [op |-> "none", status |-> 0, message |-> "", uid |-> 0, code |-> "", token |-> 0,
     cookie |-> {},
     setCookie |-> {}, clearCookie |-> FALSE, cookieOptions |-> {}, mailed |-> {},
     controller |-> FALSE, storeRead |-> FALSE, userId |-> 0, user |-> {}]

\* { ...user._doc, password: undefined }: JSON drops the undefined field.
Sanitized(u) == [f \in DOMAIN u \ {"password"} |-> u[f]]

\* The four fields verifyEmail copies into its response.
VerifiedUser(u) ==
    [_id |-> u._id, name |-> u.name, email |-> u.email, isVerified |-> u.isVerified]

Mail(kind, to, content) == [kind |-> kind, to |-> to, content |-> content]

(***************************************************************************)
(* The rate limiters: one counter per limited route and client address,    *)
(* counting every request of a window whatever its outcome.                *)
(***************************************************************************)
Routes == {"login", "signup", "forgotPassword"}
Clients == {"c1", "c2"}

windowMs(route) == IF route = "signup" THEN 60 * 60 * 1000 ELSE 15 * 60 * 1000

\* A limiter that admits one request more than configured.
maxFour(route) == 4

max(route) == 3

limitMessage(route) ==
    IF route = "login" THEN "Too many login attempts. Please try again later."
    ELSE IF route = "signup"
    THEN "Too many accounts created from this IP. Please try again later."
    ELSE "Too many password reset requests. Please try again after 15 minutes."

NoHits == [totalHits |-> 0, resetTime |-> 0]

\* The counter of a client after one more request: a counter whose window
\* has elapsed starts a new window with this request.
increment(route, client) ==
    LET h == hits[route, client]
    IN IF h.totalHits = 0 \/ h.resetTime <= now
       THEN [totalHits |-> 1, resetTime |-> now + windowMs(route)]
       ELSE [totalHits |-> h.totalHits + 1, resetTime |-> h.resetTime]

\* The callers of the browser's session store and the store as created.
CallSlots == {"k1", "k2"}

InitialStore ==
    [user |-> {}, error |-> {}, success |-> {}, isAuthenticated |-> FALSE,
     isLoading |-> FALSE, isCheckingAuth |-> TRUE]

\* process.env.NODE_ENV, read when the server starts.
NodeEnvs == {"production", "development", "staging"}

InitIn(env) ==
    /\ users = {}
    /\ nextId = 1
    /\ nextReset = 1
    /\ now = 0
    /\ ticks = 0
    /\ req = [r \in Slots |-> Idle]
    /\ sweep = [pc |-> "idle", now |-> 0]
    /\ resp = NoResp
    /\ held = {}
    /\ hits = [k \in Routes \X Clients |-> NoHits]
    /\ nodeEnv = env
    /\ store = InitialStore
    /\ calls = [k \in CallSlots |-> "idle"]

\* The server started as the README sets it up, with NODE_ENV=development.
Init == InitIn("development")

\* The server started in any environment mode.
InitAnyEnv == \E env \in NodeEnvs : InitIn(env)

Tick(d) ==
    /\ ticks < MaxTicks
    /\ now' = now + d
    /\ ticks' = ticks + 1
    /\ resp' = NoResp
    /\ UNCHANGED <<users, nextId, nextReset, req, sweep, held, hits, nodeEnv, store, calls>>

R(op, status, message) ==
    [NoResp EXCEPT !.op = op, !.status = status, !.message = message]

InFlight(pc) == Cardinality({r \in Slots : req[r].pc = pc})

(***************************************************************************)
(* signup: validation and the existence check, up to the first store read. *)
(***************************************************************************)
signupBegin(r, email, password, name) ==
    /\ req[r].pc = "idle"
    /\ UNCHANGED <<users, nextId, nextReset, now, ticks, sweep, held, nodeEnv, store, calls>>
    /\ IF email = "" \/ password = "" \/ name = ""
       THEN /\ resp' = R("signup", 400, "All fields are required (email, password, name).")
            /\ req' = req
       ELSE IF Len(password) < MinPasswordLength
       THEN /\ resp' = R("signup", 400, "Password must be at least 8 characters long.")
            /\ req' = req
       ELSE IF ByEmail(email) # {}
       THEN /\ resp' = [R("signup", 409, "A user with this email already exists.")
                          EXCEPT !.storeRead = TRUE]
            /\ req' = req
       ELSE /\ nextId + InFlight("signupCreate") <= MaxIds
            /\ resp' = NoResp
            /\ req' = [req EXCEPT ![r] = [Idle EXCEPT !.pc = "signupCreate",
                                            !.email = email, !.password = password,
                                            !.name = name]]

\* A signup from an address its limiter admits.
SignupFind(r, email, password, name) ==
    signupBegin(r, email, password, name) /\ UNCHANGED hits

\* A signup whose catch block answers as the success path does.
signupCatchCreated(base, errorMessage) ==
    [base EXCEPT !.status = 201,
                 !.message = "User created successfully. Please check your email to verify your account."]

\* A signup that does not let a failed verification mail fail the request.
signupCatchMailIgnored(base, errorMessage) ==
    IF errorMessage = "Failed to send verification email"
    THEN [base EXCEPT !.status = 201,
                      !.message = "User created successfully. Please check your email to verify your account."]
    ELSE [base EXCEPT !.status = 500,
                      !.message = "Server error during signup: " \o errorMessage]

\* signup's catch block: a 500 that appends the error's own message.
signupCatch(base, errorMessage) ==
    [base EXCEPT !.status = 500,
                 !.message = "Server error during signup: " \o errorMessage]

(***************************************************************************)
(* signup: hash, verification code, User.create, session cookie, mail.     *)
(***************************************************************************)
SignupCreate(r, salt, code, mailOk) ==
    /\ req[r].pc = "signupCreate"
    /\ req' = [req EXCEPT ![r] = Idle]
    /\ UNCHANGED <<nextReset, now, ticks, sweep, held, hits, nodeEnv, store, calls>>
    /\ LET q == req[r]
           hashedPassword == BcryptHash(q.password, SaltRounds, salt)
           user == NewUser(nextId, q.email, hashedPassword, q.name, code,
                           now + VerificationTTL)
           token == JwtSign(nextId, JWT_SECRET, now)
           base == [NoResp EXCEPT !.op = "signup", !.storeRead = TRUE]
       IN IF DuplicateKey(q.email)
          THEN /\ resp' = signupCatch(base, "E11000 duplicate key error")
               /\ UNCHANGED <<users, nextId>>
          ELSE /\ users' = users \cup {user}
               /\ nextId' = nextId + 1
               /\ IF mailOk
                  THEN resp' = [base EXCEPT !.status = 201,
                      !.message = "User created successfully. Please check your email to verify your account.",
                      !.uid = user._id, !.setCookie = {token},
                      !.cookieOptions = {cookieOptions(nodeEnv)},
                      !.mailed = {Mail("verification", q.email, code)},
                      !.user = {Sanitized(user)}]
                  ELSE resp' = signupCatch([base EXCEPT !.uid = user._id,
                                                        !.setCookie = {token},
                                                        !.cookieOptions =
                                                          {cookieOptions(nodeEnv)}],
                                           "Failed to send verification email")

(***************************************************************************)
(* login, up to the password compare: the rejection it answers with, or    *)
(* status 0 when every check passes.  uid is the document findOne loaded.  *)
(***************************************************************************)
LoginMissingFields ==
    [status |-> 400, message |-> "All fields are required (email and password)."]
LoginNoUser == [status |-> 401, message |-> "Invalid email or password."]
LoginNotVerified ==
    [status |-> 403, message |-> "Please verify your email before logging in."]
\* A password mismatch answered in words of its own.
LoginBadPasswordNamed == [status |-> 401, message |-> "Incorrect password."]
LoginBadPassword == [status |-> 401, message |-> "Invalid email or password."]

\* The checks of login without the isVerified check.
loginChecksNoVerified(email, password) ==
    IF email = "" \/ password = ""
    THEN [out |-> LoginMissingFields, uid |-> 0, read |-> FALSE]
    ELSE IF ByEmail(email) = {}
    THEN [out |-> LoginNoUser, uid |-> 0, read |-> TRUE]
    ELSE LET user == CHOOSE u \in ByEmail(email) : TRUE
         IN IF ~BcryptCompare(password, user.password)
            THEN [out |-> LoginBadPassword, uid |-> user._id, read |-> TRUE]
            ELSE [out |-> [status |-> 0, message |-> ""], uid |-> user._id, read |-> TRUE]

loginChecks(email, password) ==
    IF email = "" \/ password = ""
    THEN [out |-> LoginMissingFields, uid |-> 0, read |-> FALSE]
    ELSE IF ByEmail(email) = {}
    THEN [out |-> LoginNoUser, uid |-> 0, read |-> TRUE]
    ELSE LET user == CHOOSE u \in ByEmail(email) : TRUE
         IN IF ~user.isVerified
            THEN [out |-> LoginNotVerified, uid |-> user._id, read |-> TRUE]
            ELSE IF ~BcryptCompare(password, user.password)
            THEN [out |-> LoginBadPassword, uid |-> user._id, read |-> TRUE]
            ELSE [out |-> [status |-> 0, message |-> ""], uid |-> user._id, read |-> TRUE]

(***************************************************************************)
(* login: validation, lookup, verified check, password compare, cookie.    *)
(***************************************************************************)
loginBegin(r, email, password) ==
    /\ req[r].pc = "idle"
    /\ UNCHANGED <<users, nextId, nextReset, now, ticks, sweep, held, nodeEnv, store, calls>>
    /\ LET c == loginChecks(email, password)
       IN IF c.out.status # 0
          THEN /\ resp' = [NoResp EXCEPT !.op = "login", !.status = c.out.status,
                             !.message = c.out.message, !.uid = c.uid,
                             !.storeRead = c.read]
               /\ req' = req
          ELSE /\ resp' = NoResp
               /\ req' = [req EXCEPT ![r] = [Idle EXCEPT !.pc = "loginSave",
                            !.email = email, !.password = password,
                            !.uid = c.uid, !.at = now,
                            !.cookie = {JwtSign(c.uid, JWT_SECRET, now)}]]

\* A login from an address its limiter admits.
LoginFind(r, email, password) ==
    loginBegin(r, email, password) /\ UNCHANGED hits

(***************************************************************************)
(* login: user.save() of lastLogin, then the 200 response.                 *)
(***************************************************************************)
LoginSave(r) ==
    /\ req[r].pc = "loginSave"
    /\ req' = [req EXCEPT ![r] = Idle]
    /\ UNCHANGED <<nextId, nextReset, now, ticks, sweep, held, hits, nodeEnv, store, calls>>
    /\ LET q == req[r]
           base == [NoResp EXCEPT !.op = "login", !.uid = q.uid, !.storeRead = TRUE,
                      !.setCookie = q.cookie,
                      !.cookieOptions = {cookieOptions(nodeEnv)}]
       IN IF ById(q.uid) = {}
          THEN /\ resp' = [base EXCEPT !.status = 500,
                             !.message = "Server error during login."]
               /\ users' = users
          ELSE /\ users' = UpdateById(q.uid, loginChange(Stored(q.uid), q.at))
               /\ resp' = [base EXCEPT !.status = 200,
                             !.message = "Logged in successfully",
                             !.user = {Sanitized(loginChange(Stored(q.uid), q.at))}]

(***************************************************************************)
(* logout: clears the cookie on the client, touches nothing on the server. *)
(***************************************************************************)
Logout(cookie) ==
    /\ resp' = [R("logout", 200, "Logged out successfully")
                  EXCEPT !.clearCookie = TRUE,
                         !.cookieOptions = {clearCookieOptions(nodeEnv)}]
    /\ UNCHANGED <<users, nextId, nextReset, now, ticks, req, sweep, held, hits, nodeEnv, store, calls>>

(***************************************************************************)
(* verify-email: lookup by code and unexpired expiry.                      *)
(***************************************************************************)
VerifyFind(r, code) ==
    /\ req[r].pc = "idle"
    /\ UNCHANGED <<users, nextId, nextReset, now, ticks, sweep, held, hits, nodeEnv, store, calls>>
    /\ IF ByVerificationToken(code, now) = {}
       THEN /\ resp' = [R("verifyEmail", 400, "Invalid or expired verification code.")
                          EXCEPT !.storeRead = TRUE, !.code = code]
            /\ req' = req
       ELSE \E user \in ByVerificationToken(code, now) :
              /\ resp' = NoResp
              /\ req' = [req EXCEPT ![r] = [Idle EXCEPT !.pc = "verifySave",
                           !.code = code, !.uid = user._id, !.email = user.email,
                           !.name = user.name]]

(***************************************************************************)
(* verify-email: user.save(), welcome mail, session cookie, 200.           *)
(***************************************************************************)
VerifySave(r, mailOk) ==
    /\ req[r].pc = "verifySave"
    /\ req' = [req EXCEPT ![r] = Idle]
    /\ UNCHANGED <<nextId, nextReset, now, ticks, sweep, held, hits, nodeEnv, store, calls>>
    /\ LET q == req[r]
           token == JwtSign(q.uid, JWT_SECRET, now)
           base == [NoResp EXCEPT !.op = "verifyEmail", !.uid = q.uid, !.code = q.code,
                      !.storeRead = TRUE]
       IN IF ById(q.uid) = {}
          THEN /\ resp' = [base EXCEPT !.status = 500,
                             !.message = "Server error during email verification."]
               /\ users' = users
          ELSE /\ users' = UpdateById(q.uid, verifyChange(Stored(q.uid)))
               /\ IF mailOk
                  THEN /\ resp' = [base EXCEPT !.status = 200,
                                     !.message = "Email verified successfully.",
                                     !.setCookie = {token},
                                     !.cookieOptions = {cookieOptions(nodeEnv)},
                                     !.mailed = {Mail("welcome", q.email, q.name)},
                                     !.user = {VerifiedUser(verifyChange(Stored(q.uid)))}]
                          ELSE /\ resp' = [base EXCEPT !.status = 500,
                                     !.message = "Server error during email verification."]

(***************************************************************************)
(* forgot-password: lookup by email, fresh reset token and its expiry.     *)
(***************************************************************************)
forgotPasswordBegin(r, email) ==
    /\ req[r].pc = "idle"
    /\ UNCHANGED <<users, nextId, now, ticks, sweep, held, nodeEnv, store, calls>>
    /\ IF ByEmail(email) = {}
       THEN /\ resp' = [R("forgotPassword", 404, "No User Found With This Email")
                          EXCEPT !.storeRead = TRUE]
            /\ UNCHANGED <<req, nextReset>>
       ELSE \E user \in ByEmail(email) :
              /\ nextReset <= MaxResets
              /\ nextReset' = nextReset + 1
              /\ resp' = NoResp
              /\ req' = [req EXCEPT ![r] = [Idle EXCEPT !.pc = "forgotSave",
                           !.email = email, !.uid = user._id,
                           !.token = nextReset, !.at = now + ResetTTL]]

\* A forgot-password request from an address its limiter admits.
ForgotFind(r, email) ==
    forgotPasswordBegin(r, email) /\ UNCHANGED hits

(***************************************************************************)
(* The limited routes: the limiter counts the request, then either answers *)
(* 429 itself or hands the request to the controller.                      *)
(***************************************************************************)
limited(route, client) == increment(route, client).totalHits > max(route)

RECURSIVE counted(_)
\* The requests counted on a set of (route, client) keys.
counted(keys) ==
    IF keys = {} THEN 0
    ELSE LET k == CHOOSE x \in keys : TRUE
         IN hits[k].totalHits + counted(keys \ {k})

rateLimit(route, client) ==
    /\ counted((Routes \X Clients) \ {<<route, client>>})
         + increment(route, client).totalHits <= MaxHits
    /\ hits' = [hits EXCEPT ![route, client] = increment(route, client)]

TooMany(route) ==
    /\ resp' = R(route, 429, limitMessage(route))
    /\ UNCHANGED <<users, nextId, nextReset, now, ticks, req, sweep, held, nodeEnv, store, calls>>

SignupRoute(client, r, email, password, name) ==
    /\ rateLimit("signup", client)
    /\ IF limited("signup", client)
       THEN TooMany("signup")
       ELSE signupBegin(r, email, password, name)

LoginRoute(client, r, email, password) ==
    /\ rateLimit("login", client)
    /\ IF limited("login", client)
       THEN TooMany("login")
       ELSE loginBegin(r, email, password)

ForgotPasswordRoute(client, r, email) ==
    /\ rateLimit("forgotPassword", client)
    /\ IF limited("forgotPassword", client)
       THEN TooMany("forgotPassword")
       ELSE forgotPasswordBegin(r, email)

(***************************************************************************)
(* forgot-password: user.save() of the reset fields, reset mail, 200.      *)
(***************************************************************************)
ForgotSave(r, mailOk) ==
    /\ req[r].pc = "forgotSave"
    /\ req' = [req EXCEPT ![r] = Idle]
    /\ UNCHANGED <<nextId, nextReset, now, ticks, sweep, held, hits, nodeEnv, store, calls>>
    /\ LET q == req[r]
           base == [NoResp EXCEPT !.op = "forgotPassword", !.uid = q.uid, !.storeRead = TRUE]
       IN IF ById(q.uid) = {}
          THEN /\ resp' = [base EXCEPT !.status = 500,
                             !.message = "Server error during forgot password."]
               /\ users' = users
          ELSE /\ users' = UpdateById(q.uid, forgotChange(Stored(q.uid), q.token, q.at))
               /\ IF mailOk
                  THEN resp' = [base EXCEPT !.status = 200,
                                  !.message = "Reset password email sent successfully.",
                                  !.mailed = {Mail("reset", q.email, q.token)}]
                  ELSE resp' = [base EXCEPT !.status = 500,
                                  !.message = "Server error during forgot password."]

(***************************************************************************)
(* reset-password: validation, lookup by token and unexpired expiry.       *)
(***************************************************************************)
ResetFind(r, token, password) ==
    /\ req[r].pc = "idle"
    /\ UNCHANGED <<users, nextId, nextReset, now, ticks, sweep, held, hits, nodeEnv, store, calls>>
    /\ LET base == [NoResp EXCEPT !.op = "resetPassword"]
       IN IF password = ""
          THEN /\ resp' = [base EXCEPT !.status = 400, !.message = "Password is required"]
               /\ req' = req
          ELSE IF Len(password) < MinPasswordLength
          THEN /\ resp' = [base EXCEPT !.status = 400,
                             !.message = "Password must be at least 8 characters long"]
               /\ req' = req
          ELSE IF ByResetToken(token, now) = {}
          THEN /\ resp' = [base EXCEPT !.status = 400, !.storeRead = TRUE,
                             !.token = token,
                             !.message = "Invalid or expired reset token."]
               /\ req' = req
          ELSE \E user \in ByResetToken(token, now) :
                 /\ resp' = NoResp
                 /\ req' = [req EXCEPT ![r] = [Idle EXCEPT !.pc = "resetSave",
                              !.token = token, !.password = password,
                              !.uid = user._id, !.email = user.email]]

(***************************************************************************)
(* reset-password: hash, user.save(), confirmation mail, 200.              *)
(***************************************************************************)
ResetSave(r, salt, mailOk) ==
    /\ req[r].pc = "resetSave"
    /\ req' = [req EXCEPT ![r] = Idle]
    /\ UNCHANGED <<nextId, nextReset, now, ticks, sweep, held, hits, nodeEnv, store, calls>>
    /\ LET q == req[r]
           hashedPassword == BcryptHash(q.password, SaltRounds, salt)
           base == [NoResp EXCEPT !.op = "resetPassword", !.uid = q.uid, !.token = q.token,
                      !.storeRead = TRUE]
       IN IF ById(q.uid) = {}
          THEN /\ resp' = [base EXCEPT !.status = 500,
                             !.message = "Server error during password reset."]
               /\ users' = users
          ELSE /\ users' = UpdateById(q.uid, resetChange(Stored(q.uid), hashedPassword))
               /\ IF mailOk
                  THEN /\ resp' = [base EXCEPT !.status = 200,
                                     !.message = "Password reset successfully.",
                                     !.mailed = {Mail("resetSuccess", q.email, "")}]
                  ELSE /\ resp' = [base EXCEPT !.status = 500,
                                     !.message = "Server error during password reset."]

(***************************************************************************)
(* GET /: registered unless NODE_ENV is "production"; getAllUsers answers  *)
(* with the documents User.find() returned.                                *)
(***************************************************************************)
GetAllUsers ==
    /\ UNCHANGED <<users, nextId, nextReset, now, ticks, req, sweep, held, hits, nodeEnv, store, calls>>
    /\ IF nodeEnv = "production"
       THEN resp' = R("getAllUsers", 404, "Cannot GET /api/v1/auth/")
       ELSE resp' = [R("getAllUsers", 200, "Users fetched successfully")
                       EXCEPT !.storeRead = TRUE, !.controller = TRUE,
                              !.user = users]

(***************************************************************************)
(* The session middleware: req.userId of an accepted cookie, 0 otherwise.  *)
(***************************************************************************)
verifyToken(cookie, t) ==
    IF cookie = {} THEN [status |-> 401, userId |-> 0,
                         message |-> "Unauthorized. Please login to continue."]
    ELSE LET tok == CHOOSE x \in cookie : TRUE
         IN IF JwtVerify(tok, JWT_SECRET, t)
            THEN [status |-> 0, userId |-> tok.userId, message |-> ""]
            ELSE [status |-> 401, userId |-> 0,
                  message |-> "Invalid or expired token. Please login again."]

(***************************************************************************)
(* The checkAuth controller, given the req.userId the middleware attached. *)
(***************************************************************************)
\* A checkAuth that trusts the token and does not look the user up.
checkAuthNoLookup(userId) ==
    [status |-> 200, message |-> "User is authenticated", uid |-> userId]

checkAuth(userId) ==
    IF ById(userId) = {}
    THEN [status |-> 401, message |-> "Unauthorized. Please login to continue.", uid |-> 0]
    ELSE [status |-> 200, message |-> "User is authenticated", uid |-> userId]

(***************************************************************************)
(* GET /check-auth: verifyToken, then checkAuth.                           *)
(***************************************************************************)
CheckAuth(cookie) ==
    /\ UNCHANGED <<users, nextId, nextReset, now, ticks, req, sweep, held, hits, nodeEnv, store, calls>>
    /\ LET mw == verifyToken(cookie, now)
           base == [NoResp EXCEPT !.op = "checkAuth", !.cookie = cookie]
       IN IF mw.status # 0
          THEN resp' = [base EXCEPT !.status = mw.status, !.message = mw.message]
          ELSE LET c == checkAuth(mw.userId)
               IN resp' = [base EXCEPT !.status = c.status, !.message = c.message,
                             !.uid = c.uid, !.controller = TRUE, !.storeRead = TRUE,
                             !.userId = mw.userId,
                             !.user = {Sanitized(u) : u \in ById(c.uid)}]

(***************************************************************************)
(* The client keeps a copy of the session cookie the latest response set.  *)
(***************************************************************************)
Hold ==
    /\ resp.setCookie # {}
    /\ resp.setCookie \cap held = {}
    /\ Cardinality(held) < MaxHeld
    /\ held' = held \cup resp.setCookie
    /\ UNCHANGED <<users, nextId, nextReset, now, ticks, req, sweep, resp, hits, nodeEnv, store, calls>>

(***************************************************************************)
(* The hourly sweep: find the expired unverified users, then deleteMany    *)
(* with the same filter and the same timestamp.                            *)
(***************************************************************************)
SweepFind ==
    /\ sweep.pc \in {"idle", "caught"}
    /\ sweep' = IF ExpiredUnverified(now) # {}
                THEN [pc |-> "delete", now |-> now]
                ELSE [pc |-> "idle", now |-> 0]
    /\ resp' = NoResp
    /\ UNCHANGED <<users, nextId, nextReset, now, ticks, req, held, hits, nodeEnv, store, calls>>

SweepDelete ==
    /\ sweep.pc = "delete"
    /\ users' = users \ ExpiredUnverified(sweep.now)
    /\ sweep' = [pc |-> "idle", now |-> 0]
    /\ resp' = NoResp
    /\ UNCHANGED <<nextId, nextReset, now, ticks, req, held, hits, nodeEnv, store, calls>>

\* A sweep run whose rejection ends the timer.
SweepFailStops ==
    /\ sweep.pc \in {"idle", "caught", "delete"}
    /\ sweep' = [pc |-> "stopped", now |-> 0]
    /\ resp' = NoResp
    /\ UNCHANGED <<users, nextId, nextReset, now, ticks, req, held, hits, nodeEnv, store, calls>>

\* A sweep run whose find or deleteMany throws: the catch block logs the
\* error and the run ends; the timer stays armed.
SweepFail ==
    /\ sweep.pc \in {"idle", "caught", "delete"}
    /\ sweep' = [pc |-> "caught", now |-> 0]
    /\ resp' = NoResp
    /\ UNCHANGED <<users, nextId, nextReset, now, ticks, req, held, hits, nodeEnv, store, calls>>

(***************************************************************************)
(* The browser's session store (useAuthStore).  user, error and success    *)
(* are sets with at most one element, the empty set standing for null.     *)
(* calls holds, per concurrent caller, the store function awaiting its     *)
(* HTTP response.                                                          *)
(***************************************************************************)
Unauthorized == "Unauthorized. Please login to continue."

\* The user objects a 2xx body of the backend carries.
ResponseUsers ==
    {[_id |-> 1, email |-> "a@x.com", name |-> "A", isVerified |-> v] : v \in BOOLEAN}

\* 2xx bodies with a user, 2xx bodies without, and what a rejected request
\* leaves in error.response.data.message: nothing, or a message.
UserBodies == {[success |-> TRUE, user |-> {u}] : u \in ResponseUsers}
PlainBodies == {[success |-> TRUE]}
Rejections == {{}, {Unauthorized}, {"Invalid email or password."}}

\* error?.response?.data?.message || fallback
messageOf(rejection, fallback) ==
    IF rejection = {} THEN fallback ELSE CHOOSE m \in rejection : TRUE

\* set({ isLoading: true, error: null, success: false })
loading(s) == [s EXCEPT !.isLoading = TRUE, !.error = {}, !.success = {FALSE}]

\* set({ isLoading: false, error: message, success: false })
failed(s, message) ==
    [s EXCEPT !.isLoading = FALSE, !.error = {message}, !.success = {FALSE}]

\* The success branch of signUp, verifyEmail and login.
authenticated(s, data) ==
    [s EXCEPT !.user = data.user, !.isAuthenticated = TRUE, !.isLoading = FALSE,
              !.success = {data.success}, !.error = {}]

\* A logout that clears the user and leaves the flag as it was.
loggedOutKeepsFlag(s) ==
    [s EXCEPT !.user = {}, !.error = {}, !.isLoading = FALSE, !.success = {TRUE}]

\* The success branch of logout.
loggedOut(s) ==
    [s EXCEPT !.isAuthenticated = FALSE, !.user = {}, !.error = {},
              !.isLoading = FALSE, !.success = {TRUE}]

\* The success branch of forgotPassword and resetPassword.
acknowledged(s, data) ==
    [s EXCEPT !.isLoading = FALSE, !.success = {data.success}, !.error = {}]

\* A store function up to its await, and from its await to its return.
Called(k, fn, s) ==
    /\ calls[k] = "idle"
    /\ calls' = [calls EXCEPT ![k] = fn]
    /\ store' = s
    /\ UNCHANGED <<users, nextId, nextReset, now, ticks, req, sweep, resp, held, hits,
                   nodeEnv>>

Returned(k, fn, s) ==
    /\ calls[k] = fn
    /\ calls' = [calls EXCEPT ![k] = "idle"]
    /\ store' = s
    /\ UNCHANGED <<users, nextId, nextReset, now, ticks, req, sweep, resp, held, hits,
                   nodeEnv>>

signUpCalled(k) == Called(k, "signUp", loading(store))
signUpResolved(k, data) == Returned(k, "signUp", authenticated(store, data))
signUpRejected(k, rejection) ==
    LET message == messageOf(rejection, "An unexpected error occurred.")
    IN Returned(k, "signUp",
                IF message = Unauthorized
                THEN [store EXCEPT !.isLoading = FALSE, !.error = {},
                                   !.success = {FALSE}, !.isAuthenticated = FALSE]
                ELSE failed(store, message))

verifyEmailCalled(k) == Called(k, "verifyEmail", loading(store))
verifyEmailResolved(k, data) ==
    Returned(k, "verifyEmail", authenticated(store, [data EXCEPT !.success = TRUE]))
verifyEmailRejected(k, rejection) ==
    Returned(k, "verifyEmail",
             failed(store, messageOf(rejection, "Email verification failed.")))

loginCalled(k) == Called(k, "login", loading(store))
loginResolved(k, data) ==
    Returned(k, "login", authenticated(store, [data EXCEPT !.success = TRUE]))
loginRejected(k, rejection) ==
    Returned(k, "login", failed(store, messageOf(rejection, "Error logging in")))

logoutCalled(k) == Called(k, "logout", loading(store))
logoutResolved(k) == Returned(k, "logout", loggedOut(store))
logoutRejected(k, rejection) ==
    Returned(k, "logout", failed(store, messageOf(rejection, "Error logging out")))

\* checkAuth tracks its progress in isCheckingAuth and leaves isLoading alone.
checkAuthCalled(k) ==
    Called(k, "checkAuth",
           [store EXCEPT !.isCheckingAuth = TRUE, !.error = {}, !.success = {FALSE}])
checkAuthResolved(k, data) ==
    Returned(k, "checkAuth",
             [store EXCEPT !.user = data.user, !.isAuthenticated = TRUE,
                           !.isCheckingAuth = FALSE, !.success = {data.success},
                           !.error = {}])
checkAuthRejected(k, rejection) ==
    LET message == messageOf(rejection, "An unexpected error occurred.")
    IN Returned(k, "checkAuth",
                [store EXCEPT !.isCheckingAuth = FALSE,
                              !.error = IF message = Unauthorized THEN {} ELSE {message},
                              !.success = {FALSE}, !.isAuthenticated = FALSE])

forgotPasswordCalled(k) == Called(k, "forgotPassword", loading(store))
forgotPasswordResolved(k, data) ==
    Returned(k, "forgotPassword", acknowledged(store, data))
forgotPasswordRejected(k, rejection) ==
    Returned(k, "forgotPassword",
             failed(store, messageOf(rejection, "Failed to send reset email")))

resetPasswordCalled(k) == Called(k, "resetPassword", loading(store))
resetPasswordResolved(k, data) ==
    Returned(k, "resetPassword", acknowledged(store, data))
resetPasswordRejected(k, rejection) ==
    Returned(k, "resetPassword",
             failed(store, messageOf(rejection, "Failed to reset password")))

(***************************************************************************)
(* Input sets of the narrower specifications.                              *)
(***************************************************************************)
OneSlot == {"r1"}
OneEmail == {"a@x.com"}
OnePassword == {"Passw0rd!"}
OneCode == {"123456"}
OneClient == {"c1"}

\* A clock step that outlives a verification code and not a session token;
\* two of them outlive a session token.
SessionStep == 4 * DAY

(***************************************************************************)
(* Every operation, one request at a time, one email address.              *)
(***************************************************************************)
Next ==
    \/ \E d \in {SessionStep} : Tick(d)
    \/ \E r \in OneSlot, e \in OneEmail \cup {""}, p \in OnePassword \cup {"", "short"}, n \in NameInputs :
         SignupFind(r, e, p, n)
    \/ \E r \in OneSlot, s \in Salts, c \in OneCode, m \in BOOLEAN : SignupCreate(r, s, c, m)
    \/ \E r \in OneSlot, e \in OneEmail \cup {""}, p \in PasswordInputs : LoginFind(r, e, p)
    \/ \E r \in OneSlot : LoginSave(r)
    \/ \E c \in CookieInputs : Logout(c)
    \/ \E r \in OneSlot, c \in OneCode \cup {"000000"} : VerifyFind(r, c)
    \/ \E r \in OneSlot, m \in BOOLEAN : VerifySave(r, m)
    \/ \E r \in OneSlot, e \in OneEmail : ForgotFind(r, e)
    \/ \E r \in OneSlot, m \in BOOLEAN : ForgotSave(r, m)
    \/ \E r \in OneSlot, t \in 0..(nextReset - 1), p \in PasswordInputs : ResetFind(r, t, p)
    \/ \E r \in OneSlot, s \in Salts, m \in BOOLEAN : ResetSave(r, s, m)
    \/ \E c \in CookieInputs : CheckAuth(c)
    \/ Hold
    \/ SweepFind
    \/ SweepDelete

Spec == Init /\ [][Next]_vars

(***************************************************************************)
(* Concurrent signups, the clock and the sweep.                            *)
(***************************************************************************)
NextSignup ==
    \/ \E d \in {CookieMaxAge} : Tick(d)
    \/ \E r \in Slots, e \in EmailInputs, p \in PasswordInputs, n \in NameInputs :
         SignupFind(r, e, p, n)
    \/ \E r \in Slots, s \in Salts, c \in OneCode, m \in BOOLEAN : SignupCreate(r, s, c, m)
    \/ SweepFind
    \/ SweepDelete

SpecSignup == Init /\ [][NextSignup]_vars

(***************************************************************************)
(* Signups of two addresses and concurrent verifications.                  *)
(***************************************************************************)
NextVerify ==
    \/ \E r \in OneSlot, e \in Emails, p \in OnePassword, n \in NameInputs :
         SignupFind(r, e, p, n)
    \/ \E r \in OneSlot, s \in Salts, c \in Codes, m \in BOOLEAN : SignupCreate(r, s, c, m)
    \/ \E r \in Slots, c \in CodeInputs : VerifyFind(r, c)
    \/ \E r \in Slots, m \in BOOLEAN : VerifySave(r, m)

SpecVerify == Init /\ [][NextVerify]_vars

(***************************************************************************)
(* One account, reset tokens and concurrent resets.                        *)
(***************************************************************************)
NextReset ==
    \/ \E r \in OneSlot, e \in OneEmail, p \in OnePassword, n \in NameInputs :
         SignupFind(r, e, p, n)
    \/ \E r \in OneSlot, s \in Salts, c \in OneCode, m \in BOOLEAN : SignupCreate(r, s, c, m)
    \/ \E r \in Slots, e \in Emails : ForgotFind(r, e)
    \/ \E r \in Slots, m \in BOOLEAN : ForgotSave(r, m)
    \/ \E r \in Slots, t \in 0..(nextReset - 1), p \in PasswordInputs : ResetFind(r, t, p)
    \/ \E r \in Slots, s \in Salts, m \in BOOLEAN : ResetSave(r, s, m)

SpecReset == Init /\ [][NextReset]_vars

(***************************************************************************)
(* Two accounts, verification, password reset and login.                   *)
(***************************************************************************)
NextLogin ==
    \/ \E d \in {DAY} : Tick(d)
    \/ \E r \in OneSlot, e \in Emails, p \in Passwords, n \in NameInputs :
         SignupFind(r, e, p, n)
    \/ \E r \in OneSlot, s \in Salts, c \in OneCode, m \in BOOLEAN : SignupCreate(r, s, c, m)
    \/ \E r \in OneSlot, c \in OneCode : VerifyFind(r, c)
    \/ \E r \in OneSlot, m \in BOOLEAN : VerifySave(r, m)
    \/ \E r \in Slots, e \in EmailInputs, p \in PasswordInputs : LoginFind(r, e, p)
    \/ \E r \in Slots : LoginSave(r)

SpecLogin == Init /\ [][NextLogin]_vars

(***************************************************************************)
(* One account, its one-time tokens and the clock.                         *)
(***************************************************************************)
NextExpiry ==
    \/ \E d \in {HOUR, DAY} : Tick(d)
    \/ \E r \in OneSlot, e \in OneEmail, p \in OnePassword, n \in NameInputs :
         SignupFind(r, e, p, n)
    \/ \E r \in OneSlot, s \in Salts, c \in Codes : SignupCreate(r, s, c, TRUE)
    \/ \E r \in OneSlot, c \in CodeInputs : VerifyFind(r, c)
    \/ \E r \in OneSlot : VerifySave(r, TRUE)
    \/ \E r \in OneSlot, e \in Emails : ForgotFind(r, e)
    \/ \E r \in OneSlot : ForgotSave(r, TRUE)
    \/ \E r \in OneSlot, t \in 0..(nextReset - 1), p \in Passwords : ResetFind(r, t, p)
    \/ \E r \in OneSlot, s \in Salts : ResetSave(r, s, TRUE)

SpecExpiry == Init /\ [][NextExpiry]_vars

(***************************************************************************)
(* Sessions: every operation on well-formed input with the mail delivered, *)
(* the cookies a client holds, the clock and the sweep.                    *)
(***************************************************************************)
NextSession ==
    \/ \E d \in {SessionStep} : Tick(d)
    \/ \E r \in OneSlot, e \in OneEmail, p \in OnePassword, n \in {"A"} :
         SignupFind(r, e, p, n)
    \/ \E r \in OneSlot, s \in Salts, c \in OneCode : SignupCreate(r, s, c, TRUE)
    \/ \E r \in OneSlot, e \in OneEmail, p \in OnePassword : LoginFind(r, e, p)
    \/ \E r \in OneSlot : LoginSave(r)
    \/ \E c \in CookieInputs : Logout(c)
    \/ \E r \in OneSlot, c \in OneCode : VerifyFind(r, c)
    \/ \E r \in OneSlot : VerifySave(r, TRUE)
    \/ \E r \in OneSlot, e \in OneEmail : ForgotFind(r, e)
    \/ \E r \in OneSlot : ForgotSave(r, TRUE)
    \/ \E r \in OneSlot, t \in 1..(nextReset - 1), p \in OnePassword : ResetFind(r, t, p)
    \/ \E r \in OneSlot, s \in Salts : ResetSave(r, s, TRUE)
    \/ \E c \in CookieInputs : CheckAuth(c)
    \/ Hold
    \/ SweepFind
    \/ SweepDelete

SpecSession == Init /\ [][NextSession]_vars

(***************************************************************************)
(* The limited routes: login called from two client addresses, signup and  *)
(* forgot-password from one, for one account, with the clock moving by     *)
(* 15 minutes (one login window, a quarter of the signup window).          *)
(***************************************************************************)
NextLimit ==
    \/ \E d \in {15 * 60 * 1000} : Tick(d)
    \/ \E cl \in OneClient, r \in OneSlot, e \in OneEmail, p \in OnePassword, n \in {"A"} :
         SignupRoute(cl, r, e, p, n)
    \/ \E r \in OneSlot, s \in Salts, c \in OneCode : SignupCreate(r, s, c, TRUE)
    \/ \E r \in OneSlot, c \in OneCode : VerifyFind(r, c)
    \/ \E r \in OneSlot : VerifySave(r, TRUE)
    \/ \E cl \in Clients, r \in OneSlot, e \in OneEmail, p \in Passwords :
         LoginRoute(cl, r, e, p)
    \/ \E r \in OneSlot : LoginSave(r)
    \/ \E cl \in OneClient, r \in OneSlot, e \in OneEmail : ForgotPasswordRoute(cl, r, e)
    \/ \E r \in OneSlot : ForgotSave(r, TRUE)

SpecLimit == Init /\ [][NextLimit]_vars

(***************************************************************************)
(* Two accounts, verification, and the enumeration route in either mode.   *)
(***************************************************************************)
NextUsers ==
    \/ \E r \in OneSlot, e \in Emails, p \in OnePassword, n \in {"A"} :
         SignupFind(r, e, p, n)
    \/ \E r \in OneSlot, s \in Salts, c \in Codes, m \in BOOLEAN : SignupCreate(r, s, c, m)
    \/ \E r \in OneSlot, c \in CodeInputs : VerifyFind(r, c)
    \/ \E r \in OneSlot, m \in BOOLEAN : VerifySave(r, m)
    \/ \E r \in OneSlot, e \in Emails, p \in Passwords : LoginFind(r, e, p)
    \/ \E r \in OneSlot : LoginSave(r)
    \/ Hold
    \/ \E c \in {{}} \cup {{t} : t \in held} : CheckAuth(c)
    \/ GetAllUsers

SpecUsers == InitAnyEnv /\ [][NextUsers]_vars

(***************************************************************************)
(* The sweep beside signup and verify-email for two addresses, with the    *)
(* clock crossing the expiry of a verification code.  In SpecSweepFair the *)
(* timer keeps firing and a run that is attempted again and again          *)
(* eventually gets through its deleteMany.                                 *)
(***************************************************************************)
NextSweep ==
    \/ \E d \in {HOUR, DAY} : Tick(d)
    \/ \E r \in OneSlot, e \in Emails, p \in OnePassword, n \in {"A"} :
         SignupFind(r, e, p, n)
    \/ \E r \in OneSlot, s \in Salts, c \in OneCode : SignupCreate(r, s, c, TRUE)
    \/ \E r \in OneSlot, c \in OneCode : VerifyFind(r, c)
    \/ \E r \in OneSlot : VerifySave(r, TRUE)
    \/ SweepFind
    \/ SweepDelete
    \/ SweepFail

SpecSweep == Init /\ [][NextSweep]_vars

SpecSweepFair ==
    /\ Init
    /\ [][NextSweep]_vars
    /\ WF_vars(SweepFind)
    /\ SF_vars(SweepDelete)

(***************************************************************************)
(* forgot-password for two addresses, registered or not, verified or not,  *)
(* two requests at a time, the mail failing or not.                        *)
(***************************************************************************)
NextForgot ==
    \/ \E d \in {HOUR} : Tick(d)
    \/ \E r \in OneSlot, e \in Emails, p \in OnePassword, n \in {"A"} :
         SignupFind(r, e, p, n)
    \/ \E r \in OneSlot, s \in Salts, c \in OneCode : SignupCreate(r, s, c, TRUE)
    \/ \E r \in OneSlot, c \in OneCode : VerifyFind(r, c)
    \/ \E r \in OneSlot : VerifySave(r, TRUE)
    \/ \E r \in Slots, e \in EmailInputs : ForgotFind(r, e)
    \/ \E r \in Slots, m \in BOOLEAN : ForgotSave(r, m)

SpecForgot == Init /\ [][NextForgot]_vars

(***************************************************************************)
(* The operations that set or clear the session cookie, for one account,   *)
(* with the server started in any environment mode.                        *)
(***************************************************************************)
NextCookie ==
    \/ \E r \in OneSlot, e \in OneEmail, p \in OnePassword, n \in {"A"} :
         SignupFind(r, e, p, n)
    \/ \E r \in OneSlot, s \in Salts, c \in OneCode, m \in BOOLEAN : SignupCreate(r, s, c, m)
    \/ \E r \in OneSlot, c \in OneCode : VerifyFind(r, c)
    \/ \E r \in OneSlot, m \in BOOLEAN : VerifySave(r, m)
    \/ \E r \in OneSlot, e \in OneEmail, p \in Passwords : LoginFind(r, e, p)
    \/ \E r \in OneSlot : LoginSave(r)
    \/ Hold
    \/ \E c \in {{}} \cup {{t} : t \in held} : Logout(c)
    \/ \E d \in {SessionStep} : Tick(d)

SpecCookie == InitAnyEnv /\ [][NextCookie]_vars

(***************************************************************************)
(* signup and reset-password on every input, valid or not, with reset      *)
(* tokens issued for one account and the clock crossing their expiry.      *)
(***************************************************************************)
NextValidation ==
    \/ \E d \in {HOUR} : Tick(d)
    \/ \E r \in OneSlot, e \in EmailInputs, p \in PasswordInputs, n \in NameInputs :
         SignupFind(r, e, p, n)
    \/ \E r \in OneSlot, s \in Salts, c \in OneCode, m \in BOOLEAN : SignupCreate(r, s, c, m)
    \/ \E r \in OneSlot, e \in OneEmail : ForgotFind(r, e)
    \/ \E r \in OneSlot : ForgotSave(r, TRUE)
    \/ \E r \in OneSlot, t \in 0..(nextReset - 1), p \in PasswordInputs : ResetFind(r, t, p)
    \/ \E r \in OneSlot, s \in Salts, m \in BOOLEAN : ResetSave(r, s, m)

SpecValidation == Init /\ [][NextValidation]_vars

(***************************************************************************)
(* The session store under two concurrent callers and every outcome of    *)
(* every call.                                                             *)
(***************************************************************************)
NextStore ==
    \/ \E k \in CallSlots : signUpCalled(k)
    \/ \E k \in CallSlots, data \in UserBodies : signUpResolved(k, data)
    \/ \E k \in CallSlots, rejection \in Rejections : signUpRejected(k, rejection)
    \/ \E k \in CallSlots : verifyEmailCalled(k)
    \/ \E k \in CallSlots, data \in UserBodies : verifyEmailResolved(k, data)
    \/ \E k \in CallSlots, rejection \in Rejections : verifyEmailRejected(k, rejection)
    \/ \E k \in CallSlots : loginCalled(k)
    \/ \E k \in CallSlots, data \in UserBodies : loginResolved(k, data)
    \/ \E k \in CallSlots, rejection \in Rejections : loginRejected(k, rejection)
    \/ \E k \in CallSlots : logoutCalled(k)
    \/ \E k \in CallSlots : logoutResolved(k)
    \/ \E k \in CallSlots, rejection \in Rejections : logoutRejected(k, rejection)
    \/ \E k \in CallSlots : checkAuthCalled(k)
    \/ \E k \in CallSlots, data \in UserBodies : checkAuthResolved(k, data)
    \/ \E k \in CallSlots, rejection \in Rejections : checkAuthRejected(k, rejection)
    \/ \E k \in CallSlots : forgotPasswordCalled(k)
    \/ \E k \in CallSlots, data \in PlainBodies : forgotPasswordResolved(k, data)
    \/ \E k \in CallSlots, rejection \in Rejections : forgotPasswordRejected(k, rejection)
    \/ \E k \in CallSlots : resetPasswordCalled(k)
    \/ \E k \in CallSlots, data \in PlainBodies : resetPasswordResolved(k, data)
    \/ \E k \in CallSlots, rejection \in Rejections : resetPasswordRejected(k, rejection)

SpecStore == Init /\ [][NextStore]_vars

(***************************************************************************)
(* One account from signup to login, its password replaced by resets.      *)
(***************************************************************************)
NextPassword ==
    \/ \E r \in OneSlot, e \in OneEmail, p \in Passwords, n \in {"A"} :
         SignupFind(r, e, p, n)
    \/ \E r \in OneSlot, s \in Salts, c \in OneCode : SignupCreate(r, s, c, TRUE)
    \/ \E r \in OneSlot, c \in OneCode : VerifyFind(r, c)
    \/ \E r \in OneSlot : VerifySave(r, TRUE)
    \/ \E r \in OneSlot, e \in Emails, p \in PasswordInputs : LoginFind(r, e, p)
    \/ \E r \in OneSlot : LoginSave(r)
    \/ \E r \in OneSlot, e \in OneEmail : ForgotFind(r, e)
    \/ \E r \in OneSlot : ForgotSave(r, TRUE)
    \/ \E r \in OneSlot, t \in 0..(nextReset - 1), p \in Passwords : ResetFind(r, t, p)
    \/ \E r \in OneSlot, s \in Salts, m \in BOOLEAN : ResetSave(r, s, m)

SpecPassword == Init /\ [][NextPassword]_vars

(***************************************************************************)
(* One address: signup, verify-email, login and the sweep, with the clock  *)
(* crossing the expiry of the verification code.                           *)
(***************************************************************************)
NextLapse ==
    \/ \E d \in {HOUR, DAY} : Tick(d)
    \/ \E r \in OneSlot, e \in OneEmail, p \in Passwords, n \in {"A"} :
         SignupFind(r, e, p, n)
    \/ \E r \in OneSlot, s \in Salts, c \in OneCode, m \in BOOLEAN : SignupCreate(r, s, c, m)
    \/ \E r \in OneSlot, c \in CodeInputs : VerifyFind(r, c)
    \/ \E r \in OneSlot, m \in BOOLEAN : VerifySave(r, m)
    \/ \E r \in OneSlot, e \in OneEmail, p \in Passwords : LoginFind(r, e, p)
    \/ \E r \in OneSlot : LoginSave(r)
    \/ SweepFind
    \/ SweepDelete

SpecLapse == Init /\ [][NextLapse]_vars

(***************************************************************************)
(* C1.  Two signups for one email never both succeed.  The store never     *)
(* holds two records with one email; a signup answers 201 only when no     *)
(* record had its email when it created its own, which is then the only    *)
(* record with that email; a signup that reaches the creation while a      *)
(* record with its email exists answers 500 and creates nothing.  This     *)
(* covers signups run one after the other (the second stops at the         *)
(* existence check with 409) and signups interleaved between the existence *)
(* check and the creation.                                                 *)
(***************************************************************************)
UniqueEmail == \A u, v \in users : u.email = v.email => u = v

SignupCreates(r) == \E s \in Salts, c \in Codes, m \in BOOLEAN : SignupCreate(r, s, c, m)

SignupCreatedAlone(r) ==
    /\ resp'.status = 201
         => /\ ByEmail(req[r].email) = {}
            /\ \E u \in users' : /\ u._id = resp'.uid
                                  /\ {v \in users' : v.email = req[r].email} = {u}
    /\ ByEmail(req[r].email) # {}
         => /\ resp'.status = 500
            /\ users' = users
    /\ resp'.status \in {201, 500}

SignupFindRejects ==
    \A r \in Slots, e \in Emails, p \in PasswordInputs, n \in NameInputs :
        SignupFind(r, e, p, n) /\ ByEmail(e) # {}
            => resp'.status \in {400, 409} /\ req' = req

C2_ConsumedCodeRejected ==
    [][\A r \in Slots, c \in Codes :
          /\ resp.op = "verifyEmail"
          /\ resp.status = 200
          /\ resp.code = c
          /\ VerifyFind(r, c)
          => /\ resp'.status = 400
             /\ resp'.message = "Invalid or expired verification code."]_vars

(***************************************************************************)
(* C3.  Consuming a reset token is atomic with the password change it      *)
(* authorizes: of two reset-password requests that carry one valid token   *)
(* and interleave at their awaits, at most one answers 200 and at most one *)
(* replaces the password.  A request that writes after the other one has   *)
(* consumed the token (the record holds no reset token any more) neither   *)
(* answers 200 nor changes the store.                                      *)
(***************************************************************************)
C3_ResetConsumesOnce ==
    [][\A r \in Slots :
          /\ \E s \in Salts, m \in BOOLEAN : ResetSave(r, s, m)
          /\ \E u \in users : u._id = req[r].uid /\ u.resetPasswordToken = {}
          => /\ resp'.status # 200
             /\ users' = users]_vars

(***************************************************************************)
(* What a client sees of a response: status, message and cookie headers.   *)
(***************************************************************************)
Seen(x) ==
    [status |-> x.status, message |-> x.message,
     setCookie |-> x.setCookie, clearCookie |-> x.clearCookie]

GenericLoginFailure ==
    [status |-> 401, message |-> "Invalid email or password.",
     setCookie |-> {}, clearCookie |-> FALSE]

(***************************************************************************)
(* C4, as stated.  Login answers with one status and one message whenever  *)
(* the email is unregistered and whenever the password is wrong for a      *)
(* registered email, in every store state.                                 *)
(***************************************************************************)
C4_LoginFailsIdentically ==
    [][\A r \in Slots, e \in Emails, p \in PasswordInputs \ {""} :
          /\ LoginFind(r, e, p)
          /\ \/ ByEmail(e) = {}
             \/ \E u \in ByEmail(e) : ~BcryptCompare(p, u.password)
          => Seen(resp') = GenericLoginFailure]_vars

(***************************************************************************)
(* C4, amended.  Login answers with one status and one message whenever    *)
(* the email is unregistered and whenever the password is wrong for a      *)
(* registered and verified email; for a registered email that is not yet   *)
(* verified it answers 403 instead, which tells the two apart.             *)
(***************************************************************************)
C4_LoginFailsIdenticallyIfVerified ==
    [][\A r \in Slots, e \in Emails, p \in PasswordInputs \ {""} :
          LoginFind(r, e, p)
          => /\ \/ ByEmail(e) = {}
                \/ \E u \in ByEmail(e) : u.isVerified /\ ~BcryptCompare(p, u.password)
                => Seen(resp') = GenericLoginFailure
             /\ (\E u \in ByEmail(e) : ~u.isVerified)
                => Seen(resp') # GenericLoginFailure]_vars

\* A wrong password for a registered, verified email was answered 401.
C4_WrongPasswordRejected ==
    /\ resp.op = "login"
    /\ resp.status = 401
    /\ \E u \in users : u._id = resp.uid /\ u.isVerified

(***************************************************************************)
(* C5.  Login passes its checks only when a record with the submitted      *)
(* email exists, is verified, and the submitted password matches its hash; *)
(* it answers 200 with a session cookie for that record only then; for an  *)
(* unverified record it answers 403 whatever the password; lastLogin is    *)
(* written only by a login that answers 200, and a login that answers      *)
(* anything else leaves the store unchanged.                               *)
(***************************************************************************)
LoginPasses(e, p) ==
    \E u \in users : u.email = e /\ u.isVerified /\ BcryptCompare(p, u.password)

C5_LoginFindChecks ==
    \A r \in Slots, e \in EmailInputs, p \in PasswordInputs :
        LoginFind(r, e, p)
        => /\ req'[r].pc = "loginSave"
              => /\ LoginPasses(e, p)
                 /\ \E u \in ByEmail(e) : req'[r].uid = u._id
           /\ req'[r].pc # "loginSave"
              => /\ resp'.status \in {400, 401, 403}
                 /\ resp'.setCookie = {}
           /\ (e # "" /\ p # "" /\ \E u \in ByEmail(e) : ~u.isVerified)
              => /\ resp'.status = 403
                 /\ resp'.message = "Please verify your email before logging in."
                 /\ req' = req

C5_LoginSaveWrites ==
    \A r \in Slots :
        LoginSave(r) /\ resp'.status = 200
        => /\ LoginPasses(req[r].email, req[r].password)
           /\ \E t \in resp'.setCookie :
                 /\ JwtVerify(t, JWT_SECRET, now)
                 /\ \E u \in ByEmail(req[r].email) : t.userId = u._id

C5_StoreWrites ==
    /\ (resp'.op = "login" /\ resp'.status # 200) => users' = users
    /\ \A u \in users, v \in users' :
          u._id = v._id /\ u.lastLogin # v.lastLogin
          => /\ resp'.op = "login"
             /\ resp'.status = 200
             /\ resp'.uid = u._id
             /\ \E t \in v.lastLogin : t <= now /\ v = [u EXCEPT !.lastLogin = {t}]

C5_LoginOnlyVerifiedMatching ==
    [][C5_LoginFindChecks /\ C5_LoginSaveWrites /\ C5_StoreWrites]_vars

\* A login answered 200 with a cookie and wrote lastLogin on its record.
C5_LoggedIn ==
    /\ resp.op = "login"
    /\ resp.status = 200
    /\ resp.setCookie # {}
    /\ \E u \in users : u._id = resp.uid /\ u.lastLogin # {}

(***************************************************************************)
(* C6.  isVerified only ever changes from false to true: no step of any    *)
(* operation leaves an existing record, verified before the step,          *)
(* unverified after it.                                                    *)
(***************************************************************************)
C6_VerifiedNeverReverts ==
    [][\A u \in users, v \in users' :
          u._id = v._id /\ u.isVerified => v.isVerified]_vars

\* A verified account has reset its password and is still verified.
C6_VerifiedAfterReset ==
    /\ resp.op = "resetPassword"
    /\ resp.status = 200
    /\ \E u \in users : u._id = resp.uid /\ u.isVerified

(***************************************************************************)
(* C7.  An expired one-time token is treated as absent although the record *)
(* still stores it: reset-password (verify-email) with a token that some   *)
(* record holds, and whose expiry on every record that holds it is not     *)
(* strictly after the current time, answers 400 "invalid or expired", and  *)
(* no record changes.                                                      *)
(***************************************************************************)
ResetTokenExpired(token) ==
    /\ \E u \in users : token \in u.resetPasswordToken
    /\ \A u \in users : token \in u.resetPasswordToken
          => \A e \in u.resetPasswordExpiresAt : ~(e > now)

VerificationCodeExpired(code) ==
    /\ \E u \in users : code \in u.verificationToken
    /\ \A u \in users : code \in u.verificationToken
          => \A e \in u.verificationTokenExpiresAt : ~(e > now)

C7_ExpiredTokenIsAbsent ==
    [][/\ \A r \in OneSlot, t \in 1..MaxResets, p \in Passwords :
             ResetFind(r, t, p) /\ ResetTokenExpired(t)
             => /\ resp'.status = 400
                /\ resp'.message = "Invalid or expired reset token."
                /\ users' = users
                /\ req' = req
       /\ \A r \in OneSlot, c \in Codes :
             VerifyFind(r, c) /\ VerificationCodeExpired(c)
             => /\ resp'.status = 400
                /\ resp'.message = "Invalid or expired verification code."
                /\ users' = users
                /\ req' = req]_vars

\* reset-password was refused at the very instant its token expires, with
\* the token still on the record.
C7_RefusedAtExpiryInstant ==
    /\ resp.op = "resetPassword"
    /\ resp.status = 400
    /\ \E u \in users : /\ resp.token \in u.resetPasswordToken
                         /\ now \in u.resetPasswordExpiresAt

(***************************************************************************)
(* C8.  A session token that check-auth accepts stays accepted at every    *)
(* later time before its 7-day expiry while its user record exists,        *)
(* whatever happens in between: no step (a logout, a password reset, a new *)
(* login among them) revokes it, and logout changes nothing on the server. *)
(***************************************************************************)
SevenDaysSec == 7 * 24 * 60 * 60

Accepted(t) ==
    LET mw == verifyToken({t}, now)
    IN mw.status = 0 /\ checkAuth(mw.userId).status = 200

C8_NoStepRevokes ==
    \A t \in held :
        /\ Accepted(t)
        /\ (now' \div 1000) < t.iat + SevenDaysSec
        /\ \E u \in users' : u._id = t.userId
        => Accepted(t)'

C8_LogoutServerless ==
    resp'.op = "logout"
    => \A c \in CookieInputs :
          Logout(c) => /\ UNCHANGED <<users, nextId, nextReset, req, sweep, now, hits>>
                       /\ resp'.clearCookie
                       /\ resp'.setCookie = {}

C8_TokenValidUntilExpiry ==
    [][C8_NoStepRevokes /\ C8_LogoutServerless]_vars

\* A token is accepted although its account has logged in anew since the
\* token was issued.
C8_AcceptedAfterNewLogin ==
    /\ resp.op = "checkAuth"
    /\ resp.status = 200
    /\ \E t \in resp.cookie :
          /\ t \in held
          /\ \E u \in users : /\ u._id = t.userId
                               /\ \E l \in u.lastLogin : t.iat * 1000 < l

(***************************************************************************)
(* C9.  check-auth answers 401 when the request has no token cookie, and   *)
(* when the cookie holds an issued, unexpired token whose user record is   *)
(* gone; it answers 200, with that user, exactly when the token is issued, *)
(* unexpired and its record exists.                                        *)
(***************************************************************************)
Live(t) == t \in held /\ (now \div 1000) < t.iat + SevenDaysSec

C9_CheckAuthAnswers ==
    [][resp'.op = "checkAuth" => \A c \in CookieInputs :
          CheckAuth(c)
          => /\ c = {} => resp'.status = 401
             /\ \A t \in c : Live(t) /\ ~(\E u \in users : u._id = t.userId)
                   => resp'.status = 401
             /\ resp'.status = 200
                   <=> \E t \in c : Live(t) /\ \E u \in users : u._id = t.userId
             /\ resp'.status = 200 => \E t \in c : resp'.uid = t.userId
             /\ resp'.status \in {200, 401}]_vars

\* An issued, unexpired token was refused because its record is gone.
C9_RefusedRecordGone ==
    /\ resp.op = "checkAuth"
    /\ resp.status = 401
    /\ \E t \in resp.cookie : Live(t) /\ ~(\E u \in users : u._id = t.userId)

(***************************************************************************)
(* C10.  The session middleware lets a request through to the controller,  *)
(* with the token's user id attached, exactly when the cookie holds a      *)
(* token that was issued by the server, is unaltered and is within its     *)
(* 7 days; a missing token is refused with 401, an altered or expired one  *)
(* is refused with 401, and in both refusals the controller does not run   *)
(* and the store is not read.                                              *)
(***************************************************************************)
C10_MiddlewareGate ==
    [][resp'.op = "checkAuth" => \A c \in CookieInputs :
          CheckAuth(c)
          => /\ resp'.controller <=> \E t \in c : Live(t)
             /\ resp'.controller => \E t \in c : resp'.userId = t.userId
             /\ c = {}
                   => /\ resp'.status = 401
                      /\ resp'.message = "Unauthorized. Please login to continue."
                      /\ ~resp'.controller
                      /\ ~resp'.storeRead
             /\ (c # {} /\ \A t \in c : ~Live(t))
                   => /\ resp'.status = 401
                      /\ resp'.message = "Invalid or expired token. Please login again."
                      /\ ~resp'.controller
                      /\ ~resp'.storeRead]_vars

\* A held token altered by the client was refused before the controller.
C10_AlteredTokenRefused ==
    /\ resp.op = "checkAuth"
    /\ resp.status = 401
    /\ ~resp.controller
    /\ \E t \in resp.cookie : t \notin held /\ (now \div 1000) < t.exp

(***************************************************************************)
(* C11.  On each limited route (login 3 per 15 minutes, signup 3 per hour, *)
(* forgot-password 3 per 15 minutes) a request of a client address that    *)
(* already made three requests in the running window of that route is      *)
(* answered 429 with the route's fixed message before the controller runs  *)
(* (no record, pending request, cookie or mail changes), whatever the      *)
(* earlier three were answered; any other request to the route, among them *)
(* the first one after the window has elapsed, is not answered 429 and     *)
(* reaches the controller; the decision reads only the counter of that     *)
(* route and that client, and a request counts on no other counter.        *)
(***************************************************************************)
C11_Window(route) == IF route = "signup" THEN 3600000 ELSE 900000

C11_Message(route) ==
    IF route = "login" THEN "Too many login attempts. Please try again later."
    ELSE IF route = "signup"
    THEN "Too many accounts created from this IP. Please try again later."
    ELSE "Too many password reset requests. Please try again after 15 minutes."

C12_StoredPasswordIsHash ==
    \A u \in users :
       /\ "password" \in DOMAIN u
       /\ \E p \in Passwords, s \in Salts :
             u.password = [rounds |-> 12, salt |-> s, digest |-> <<12, s, p>>]

\* reset-password answered 200 and the record holds the hash of the new
\* password, which differs from the one the account was created with.
C12_HashAfterReset ==
    /\ resp.op = "resetPassword"
    /\ resp.status = 200
    /\ \E u \in users :
          /\ u._id = resp.uid
          /\ u.password = [rounds |-> 12, salt |-> "salt",
                           digest |-> <<12, "salt", "N3wPassw0rd">>]

(***************************************************************************)
(* C13.  No response of any endpoint, in any environment mode, carries a   *)
(* user's credential hash: every user object in a response body has no     *)
(* password field.                                                         *)
(***************************************************************************)
C13_NoHashInResponses ==
    \A o \in resp.user : "password" \notin DOMAIN o

(***************************************************************************)
(* C14.  With the sweep timer firing again and again, a record that is     *)
(* unverified after its verificationTokenExpiresAt has passed does not     *)
(* stay so: it is eventually deleted (or, by a verify-email that found it  *)
(* before the expiry, verified).  A sweep run that fails changes no record *)
(* and no request, and later runs still take place.  A step that is not    *)
(* part of a request changes the store only as the sweep's deleteMany,     *)
(* which removes unverified records and changes nothing else.              *)
(***************************************************************************)
C14_Overdue(id) ==
    \E u \in users :
       /\ u._id = id
       /\ ~u.isVerified
       /\ \E e \in u.verificationTokenExpiresAt : e < now

C14_SweepEventuallyDeletes ==
    /\ \A id \in 1..MaxIds :
          C14_Overdue(id) ~> ~(\E u \in users : u._id = id /\ ~u.isVerified)
    /\ [][(sweep.pc # "caught" /\ sweep'.pc = "caught")
            => users' = users /\ req' = req]_vars
    /\ [][(users' # users /\ req' = req /\ resp'.op = "none")
            => /\ sweep.pc = "delete"
               /\ sweep'.pc = "idle"
               /\ users' \subseteq users
               /\ \A u \in users \ users' : ~u.isVerified]_vars

\* A sweep run has failed while an overdue record is in the store.
C14_RunFailedRecordOverdue ==
    /\ sweep.pc = "caught"
    /\ \E id \in 1..MaxIds : C14_Overdue(id)

(***************************************************************************)
(* C15.  Every record the sweep's deleteMany removes is, in the store as   *)
(* it stands at that moment, unverified with a verificationTokenExpiresAt  *)
(* strictly before the timestamp the sweep run took, and holds no code     *)
(* that verify-email would accept at that instant; every other record,     *)
(* a record verified since the sweep's find among them, stays as it is.    *)
(***************************************************************************)
C15_SweepDeletesOnlyOverdue ==
    [][(sweep.pc = "delete" /\ sweep'.pc = "idle")
         => /\ users' \subseteq users
            /\ \A u \in users : u.isVerified => u \in users'
            /\ \A u \in users \ users' :
                  /\ u.isVerified = FALSE
                  /\ \E e \in u.verificationTokenExpiresAt : e < sweep.now
                  /\ \A c \in CodeInputs :
                        ~(c \in u.verificationToken
                          /\ \E e \in u.verificationTokenExpiresAt : e > now)]_vars

\* The sweep found an overdue record and is about to run deleteMany, and
\* verify-email has marked every record it found verified in between.
C15_VerifiedBeforeDeleteMany ==
    /\ sweep.pc = "delete"
    /\ \E u \in users : u.isVerified
    /\ \A u \in users : u.isVerified \/ \E e \in u.verificationTokenExpiresAt : e >= sweep.now

(***************************************************************************)
(* C16.  When the mail dispatch fails in signup, verify-email,             *)
(* forgot-password or reset-password, the request is answered 500, the     *)
(* failure of the whole operation, and never with a success status; the    *)
(* response reports no mail as sent.                                       *)
(***************************************************************************)
C16_Failed(op) ==
    /\ resp'.op = op
    /\ resp'.status = 500
    /\ resp'.mailed = {}
    /\ resp'.user = {}

C16_MailFailureFailsRequest ==
    [][\A r \in Slots :
          /\ req[r].pc = "signupCreate"
                => \A s \in Salts, c \in Codes :
                      SignupCreate(r, s, c, FALSE) => C16_Failed("signup")
          /\ req[r].pc = "verifySave"
                => (VerifySave(r, FALSE) => C16_Failed("verifyEmail"))
          /\ req[r].pc = "forgotSave"
                => (ForgotSave(r, FALSE) => C16_Failed("forgotPassword"))
          /\ req[r].pc = "resetSave"
                => \A s \in Salts :
                      ResetSave(r, s, FALSE) => C16_Failed("resetPassword")]_vars

\* verify-email answered 500 although the record was found and is now
\* verified: the welcome mail failed after the save.
C16_VerifiedButAnswered500 ==
    /\ resp.op = "verifyEmail"
    /\ resp.status = 500
    /\ \E u \in users : u._id = resp.uid /\ u.isVerified /\ u.lastLogin = {}
    /\ \A r \in Slots : req[r].pc = "idle"

(***************************************************************************)
(* C17.  Every 500 response carries one of the controllers' fixed generic  *)
(* messages; no text of the underlying store or mail error is part of it.  *)
(***************************************************************************)
C17_GenericMessages ==
    {"Server error during signup.",
     "Server error during login.",
     "Server error during logout.",
     "Server error during email verification.",
     "Server error during forgot password.",
     "Server error during password reset.",
     "Server error during check auth.",
     "Server error while fetching users"}

C17_ServerErrorsAreGeneric ==
    resp.status = 500 => resp.message \in C17_GenericMessages

(***************************************************************************)
(* C18.  verify-email goes on to its save only for a record that holds the *)
(* submitted code with an expiry later than the current time; the save     *)
(* gives exactly that record isVerified = true and neither verification    *)
(* field, all its other fields and all other records staying as they were; *)
(* its 200 response sets a session cookie signed at the current second for *)
(* that record's id and returns that record's id, name, email and          *)
(* isVerified.  The handler takes no session cookie as input.              *)
(***************************************************************************)
C18_Verified(u) ==
    [_id |-> u._id, email |-> u.email, password |-> u.password, name |-> u.name,
     isVerified |-> TRUE,
     verificationToken |-> {},
     verificationTokenExpiresAt |-> {},
     resetPasswordToken |-> u.resetPasswordToken,
     resetPasswordExpiresAt |-> u.resetPasswordExpiresAt,
     lastLogin |-> u.lastLogin]

C18_VerifyChangesOneRecord ==
    [][/\ \A r \in Slots :
             (req[r].pc = "idle" /\ req'[r].pc = "verifySave")
             => /\ users' = users
                /\ \E u \in users :
                      /\ u._id = req'[r].uid
                      /\ req'[r].code \in u.verificationToken
                      /\ \E e \in u.verificationTokenExpiresAt : e > now
       /\ \A r \in Slots :
             (req[r].pc = "verifySave" /\ req'[r].pc = "idle")
             => /\ resp'.op = "verifyEmail"
                /\ resp'.status \in {200, 500}
                /\ (\A u \in users : u._id # req[r].uid)
                      => users' = users /\ resp'.status = 500
                /\ \A u \in users :
                      u._id = req[r].uid
                      => /\ users' = (users \ {u}) \cup {C18_Verified(u)}
                         /\ resp'.status = 200
                               => /\ resp'.setCookie =
                                       {[userId |-> u._id,
                                         iat |-> now \div 1000,
                                         exp |-> (now \div 1000) + 604800,
                                         sig |-> <<u._id, now \div 1000,
                                                   (now \div 1000) + 604800,
                                                   "JWT_SECRET">>]}
                                  /\ resp'.user = {[_id |-> u._id, name |-> u.name,
                                                     email |-> u.email,
                                                     isVerified |-> TRUE]}]_vars

\* verify-email answered 200 for one record while another record, still
\* unverified, holds the same code untouched; the client held no cookie.
C18_OtherRecordUntouched ==
    /\ resp.op = "verifyEmail"
    /\ resp.status = 200
    /\ held = {}
    /\ \E u \in users : u._id = resp.uid /\ u.isVerified /\ u.verificationToken = {}
    /\ \E v \in users :
          /\ v._id # resp.uid
          /\ v.isVerified = FALSE
          /\ resp.code \in v.verificationToken

(***************************************************************************)
(* C19.  A signup that answers 201 has added exactly one record to the     *)
(* store and changed no other: the record has a new id, the submitted      *)
(* email and name, isVerified = false and a verification code that expires *)
(* 24 hours after the current time; the response sets a session cookie for *)
(* that id, reports exactly one mail, the verification mail with that code *)
(* to the submitted address, and returns the record without its password   *)
(* field.                                                                  *)
(***************************************************************************)
C19_Signup201 ==
    [][(resp'.op = "signup" /\ resp'.status = 201)
         => \E r \in Slots, u \in users' \ users :
               /\ req[r].pc = "signupCreate"
               /\ req'[r].pc = "idle"
               /\ users' = users \cup {u}
               /\ \A v \in users : v._id # u._id /\ v.email # u.email
               /\ u.email = req[r].email
               /\ u.name = req[r].name
               /\ u.isVerified = FALSE
               /\ Cardinality(u.verificationToken) = 1
               /\ u.verificationTokenExpiresAt = {now + 86400000}
               /\ resp'.setCookie =
                     {[userId |-> u._id,
                       iat |-> now \div 1000,
                       exp |-> (now \div 1000) + 604800,
                       sig |-> <<u._id, now \div 1000,
                                 (now \div 1000) + 604800, "JWT_SECRET">>]}
               /\ \E c \in u.verificationToken :
                     resp'.mailed = {[kind |-> "verification", to |-> req[r].email,
                                      content |-> c]}
               /\ \E o \in resp'.user :
                     /\ resp'.user = {o}
                     /\ DOMAIN o = DOMAIN u \ {"password"}
                     /\ \A f \in DOMAIN o : o[f] = u[f]]_vars

\* A second account was created: signup answered 201 with the new record,
\* less its password, while the earlier account is in the store.
C19_SecondAccountCreated ==
    /\ resp.op = "signup"
    /\ resp.status = 201
    /\ Cardinality(users) = 2
    /\ \E u \in users, o \in resp.user :
          /\ u._id = resp.uid
          /\ o._id = u._id
          /\ "password" \notin DOMAIN o
          /\ "password" \in DOMAIN u

(***************************************************************************)
(* C20.  forgot-password for an email no record has answers 404 and        *)
(* changes no record.  For an email a record has, verified or not, it      *)
(* draws a token no record holds and an expiry 3600000 ms after the        *)
(* current time, and its save stores both on that record, changing no      *)
(* other field and no other record; its 200 response reports one mail, the *)
(* reset mail with that token to the record's email, and carries neither   *)
(* the token nor a user object nor a cookie.                               *)
(***************************************************************************)
C20_WithReset(u, token, expiresAt) ==
    [_id |-> u._id, email |-> u.email, password |-> u.password, name |-> u.name,
     isVerified |-> u.isVerified,
     verificationToken |-> u.verificationToken,
     verificationTokenExpiresAt |-> u.verificationTokenExpiresAt,
     resetPasswordToken |-> {token},
     resetPasswordExpiresAt |-> {expiresAt},
     lastLogin |-> u.lastLogin]

C20_ForgotPassword ==
    [][\A r \in Slots :
          /\ \A e \in EmailInputs :
                ForgotFind(r, e)
                => /\ users' = users
                   /\ (\A u \in users : u.email # e)
                         => /\ resp'.status = 404
                            /\ resp'.message = "No User Found With This Email"
                            /\ resp'.mailed = {}
                            /\ req' = req
                   /\ (\E u \in users : u.email = e)
                         => /\ req'[r].pc = "forgotSave"
                            /\ req'[r].at = now + 3600000
                            /\ \E u \in users : u.email = e /\ u._id = req'[r].uid
                            /\ \A u \in users : req'[r].token \notin u.resetPasswordToken
                            /\ \A x \in Slots \ {r} : req'[r].token # req[x].token
          /\ (req[r].pc = "forgotSave" /\ req'[r].pc = "idle")
                => /\ resp'.op = "forgotPassword"
                   /\ resp'.status \in {200, 500}
                   /\ resp'.token = 0
                   /\ resp'.user = {}
                   /\ resp'.setCookie = {}
                   /\ (\A u \in users : u._id # req[r].uid)
                         => users' = users /\ resp'.status = 500
                   /\ \A u \in users :
                         u._id = req[r].uid
                         => /\ users' = (users \ {u})
                                          \cup {C20_WithReset(u, req[r].token, req[r].at)}
                            /\ resp'.status = 200
                                  => /\ resp'.message =
                                          "Reset password email sent successfully."
                                     /\ resp'.mailed =
                                          {[kind |-> "reset", to |-> u.email,
                                            content |-> req[r].token]}]_vars

\* forgot-password answered 200 for an account that is not verified: the
\* record holds the mailed token, and a second record holds none.
C20_TokenStoredForUnverified ==
    /\ resp.op = "forgotPassword"
    /\ resp.status = 200
    /\ \E u \in users :
          /\ u._id = resp.uid
          /\ u.isVerified = FALSE
          /\ \E m \in resp.mailed : m.to = u.email /\ m.content \in u.resetPasswordToken
          /\ \E v \in users : v._id # u._id /\ v.resetPasswordToken = {}

(***************************************************************************)
(* C21, as stated.  Every session cookie set by signup, login and          *)
(* verify-email is named token, is httpOnly and sameSite=strict, has a     *)
(* max-age of 7 days equal to the lifetime of the token it carries, and is *)
(* secure in every environment mode other than development; logout clears  *)
(* the cookie with the same httpOnly, sameSite and secure attributes.       *)
(***************************************************************************)
C21_Attributes(secure) ==
    /\ (resp.setCookie # {} \/ resp.clearCookie) <=> resp.cookieOptions # {}
    /\ resp.setCookie # {} => resp.op \in {"signup", "login", "verifyEmail"}
    /\ resp.clearCookie => resp.op = "logout" /\ resp.setCookie = {}
    /\ \A o \in resp.cookieOptions :
          /\ o.name = "token"
          /\ o.httpOnly = TRUE
          /\ o.sameSite = "strict"
          /\ o.secure = secure
          /\ resp.setCookie # {} => o.maxAge = {604800000}
          /\ \A t \in resp.setCookie, a \in o.maxAge : (t.exp - t.iat) * 1000 = a

C21_CookieAttributes == C21_Attributes(nodeEnv # "development")

(***************************************************************************)
(* C21, amended.  The same, with the secure flag set exactly when the      *)
(* environment mode is production: in development and in every other mode  *)
(* the cookie is set, and cleared, without the secure flag.                *)
(***************************************************************************)
C21_CookieAttributesSecureInProduction == C21_Attributes(nodeEnv = "production")

\* In production mode login answered 200 with a secure cookie.
C21_SecureCookieInProduction ==
    /\ nodeEnv = "production"
    /\ resp.op = "login"
    /\ resp.status = 200
    /\ resp.setCookie # {}
    /\ \E o \in resp.cookieOptions : o.secure

(***************************************************************************)
(* C22.  Credentials round-trip.  The password of an account is the one    *)
(* its signup submitted until a reset-password is saved for it, and from   *)
(* then on the one that reset submitted; no other step changes it.  For a  *)
(* verified account, login with the account's password passes the checks   *)
(* and login with any other password is answered 401: so after signup with *)
(* P and verify-email, login with P succeeds, and after a reset to P2,     *)
(* login with P2 succeeds and login with P fails.                          *)
(***************************************************************************)
C22_Made(hash, password) ==
    hash = [rounds |-> 12, salt |-> hash.salt, digest |-> <<12, hash.salt, password>>]

C23_TokenWithExpiry ==
    \A u \in users :
       /\ Cardinality(u.verificationToken) = Cardinality(u.verificationTokenExpiresAt)
       /\ Cardinality(u.resetPasswordToken) = Cardinality(u.resetPasswordExpiresAt)

\* A verified record, both verification fields cleared, holds a reset token
\* together with its expiry.
C23_ResetPairSetVerificationPairCleared ==
    \E u \in users :
       /\ u.isVerified
       /\ u.verificationToken = {} /\ u.verificationTokenExpiresAt = {}
       /\ u.resetPasswordToken # {} /\ u.resetPasswordExpiresAt # {}

(***************************************************************************)
(* C24.  signup with a missing field or a password shorter than 8          *)
(* characters, and reset-password with a missing password or one shorter   *)
(* than 8 characters, are answered 400 with the validation message before  *)
(* the store is read: no record is created or changed, no cookie is set,   *)
(* no mail is sent, and a reset token the store accepts before the request *)
(* is accepted after it as well; no request with such input ever goes on   *)
(* to the step that writes.                                                *)
(***************************************************************************)
C24_Rejected(op, message) ==
    /\ resp'.op = op
    /\ resp'.status = 400
    /\ resp'.message = message
    /\ resp'.storeRead = FALSE
    /\ resp'.setCookie = {}
    /\ resp'.mailed = {}
    /\ resp'.user = {}
    /\ users' = users
    /\ req' = req
    /\ nextId' = nextId

C24_StillAccepted(token) ==
    \E u \in users' :
       /\ token \in u.resetPasswordToken
       /\ \E e \in u.resetPasswordExpiresAt : e > now'

C25_SignupMailFailed ==
    /\ resp.op = "signup"
    /\ resp.status = 500
    /\ resp.message = "Server error during signup: Failed to send verification email"

C25_CommittedStateStays ==
    /\ [][\A r \in Slots :
             /\ (req[r].pc = "signupCreate" /\ ~DuplicateKey(req[r].email))
                   => \A s \in Salts, c \in Codes :
                         SignupCreate(r, s, c, FALSE)
                            => /\ C25_SignupMailFailed'
                               /\ \E u \in users' \ users :
                                     /\ u._id = resp'.uid
                                     /\ u.email = req[r].email
                                     /\ ~u.isVerified
                                     /\ u.verificationToken = {c}
                                     /\ BcryptCompare(req[r].password, u.password)
             /\ (req[r].pc = "verifySave" /\ ById(req[r].uid) # {})
                   => (VerifySave(r, FALSE)
                         => /\ resp'.status = 500
                            /\ \E u \in users' :
                                  /\ u._id = req[r].uid
                                  /\ u.isVerified
                                  /\ u.verificationToken = {}
                                  /\ u.verificationTokenExpiresAt = {}
                            /\ \A u \in users' : req[r].code \notin u.verificationToken)
             /\ (req[r].pc = "resetSave" /\ ById(req[r].uid) # {})
                   => \A s \in Salts :
                         ResetSave(r, s, FALSE)
                            => /\ resp'.status = 500
                               /\ \E u \in users' :
                                     /\ u._id = req[r].uid
                                     /\ u.password = BcryptHash(req[r].password, SaltRounds, s)
                                     /\ u.resetPasswordToken = {}
                                     /\ u.resetPasswordExpiresAt = {}
                               /\ \A u \in users' : req[r].token \notin u.resetPasswordToken]_vars
    /\ [][C25_SignupMailFailed
             => /\ ById(resp.uid) # {}
                /\ \A r \in Slots, p \in Passwords, n \in NameInputs \ {""} :
                      SignupFind(r, Stored(resp.uid).email, p, n)
                         => /\ resp'.status = 409
                            /\ users' = users]_vars

\* reset-password answered 500 because the confirmation mail failed, and
\* the record holds the new password's hash and no reset token.
C25_NewPasswordInForceAfter500 ==
    /\ resp.op = "resetPassword"
    /\ resp.status = 500
    /\ \E u \in users :
          /\ u._id = resp.uid
          /\ BcryptCompare("N3wPassw0rd", u.password)
          /\ u.resetPasswordToken = {}
    /\ \A r \in Slots : req[r].pc = "idle"

(***************************************************************************)
(* C26.  A response sets the session cookie only when it is a success:     *)
(* 201 from signup, 200 from login or verify-email.  No 4xx or 5xx         *)
(* response of any controller carries it.                                  *)
(***************************************************************************)
C26_CookieOnlyOnSuccess ==
    resp.setCookie # {}
       => \/ resp.op = "signup" /\ resp.status = 201
          \/ resp.op \in {"login", "verifyEmail"} /\ resp.status = 200

(***************************************************************************)
(* C27.  Every record is unverified exactly when it holds a verification   *)
(* token.  signup creates the record unverified with a token; verify-email *)
(* is the only operation that changes isVerified or the token of a stored  *)
(* record, and it sets the one and clears the other in the same write.     *)
(***************************************************************************)
C27_UnverifiedIffToken ==
    [][/\ \A u \in users : ~u.isVerified <=> u.verificationToken # {}
       /\ \A v \in users' : ~v.isVerified <=> v.verificationToken # {}
       /\ \A v \in users' :
             ById(v._id) = {}
                => /\ resp'.op = "signup"
                   /\ ~v.isVerified
                   /\ v.verificationToken # {}
       /\ \A u \in users, v \in users' :
             (/\ u._id = v._id
              /\ \/ u.isVerified # v.isVerified
                 \/ u.verificationToken # v.verificationToken)
                => /\ resp'.op = "verifyEmail"
                   /\ ~u.isVerified
                   /\ v.isVerified
                   /\ v.verificationToken = {}]_vars

\* A verified record without a verification token after forgot-password
\* and login have written to it as well.
C27_VerifiedNoTokenAfterOtherWrites ==
    /\ resp.op = "login"
    /\ resp.status = 200
    /\ \E u \in users :
          /\ u._id = resp.uid
          /\ u.isVerified
          /\ u.verificationToken = {}
          /\ u.resetPasswordToken # {}
          /\ u.lastLogin # {}

(***************************************************************************)
(* C28.  A record has at most one usable reset token.  The save of a       *)
(* forgot-password replaces the record's earlier token and expiry by the   *)
(* new pair; from then on reset-password with the earlier token is         *)
(* answered 400 and changes nothing, and a password is replaced only by a  *)
(* reset-password whose token is the one the record holds.                 *)
(***************************************************************************)
C28_Holds(u, token) == token \in u.resetPasswordToken

C29_Lapsed(u) ==
    /\ ~u.isVerified
    /\ \E e \in u.verificationTokenExpiresAt : e <= now

C29_Refused(status) ==
    /\ resp'.status = status
    /\ users' = users
    /\ req' = req

C29_ExpiredRecordOccupiesEmail ==
    [][\A u \in users :
          C29_Lapsed(u)
             => /\ \/ \E v \in users' : v._id = u._id /\ v.email = u.email /\ C29_Lapsed(v)'
                   \/ /\ sweep.pc = "delete"
                      /\ sweep'.pc = "idle"
                      /\ users' = users \ ExpiredUnverified(sweep.now)
                   \/ \E r \in Slots :
                         /\ req[r].pc = "verifySave"
                         /\ req[r].uid = u._id
                         /\ req'[r].pc = "idle"
                         /\ \E v \in users' : v._id = u._id /\ v.email = u.email
                /\ \A r \in Slots :
                      /\ (req[r].pc = "idle" /\ (resp'.op = "verifyEmail" \/ req'[r].pc = "verifySave"))
                            => \A c \in u.verificationToken :
                                  VerifyFind(r, c) => C29_Refused(400)
                      /\ (req[r].pc = "idle" /\ (resp'.op = "login" \/ req'[r].pc = "loginSave"))
                            => \A p \in Passwords :
                                  LoginFind(r, u.email, p) => C29_Refused(403)
                      /\ (req[r].pc = "idle" /\ (resp'.op = "signup" \/ req'[r].pc = "signupCreate"))
                            => \A p \in Passwords, n \in NameInputs \ {""} :
                                  SignupFind(r, u.email, p, n) => C29_Refused(409)
                /\ ~(resp'.op = "signup" /\ resp'.status = 201)]_vars

\* signup for the email of a lapsed record answered 409 while no sweep run
\* is under way.
C29_SignupRefusedBeforeSweep ==
    /\ resp.op = "signup"
    /\ resp.status = 409
    /\ sweep.pc = "idle"
    /\ \E u \in users : C29_Lapsed(u)

(***************************************************************************)
(* C30.  In the session store, whatever calls have run and however they    *)
(* ended, isAuthenticated = true implies that user is not null; a call     *)
(* that set isLoading leaves it false when it returns, so isLoading is     *)
(* false whenever no call is under way.                                    *)
(***************************************************************************)
C30_SetsLoading == {"signUp", "verifyEmail", "login", "logout", "forgotPassword",
                    "resetPassword"}

C30_StoreConsistent ==
    [][/\ store'.isAuthenticated => store'.user # {}
       /\ \A k \in CallSlots :
             (calls[k] \in C30_SetsLoading /\ calls'[k] = "idle")
                => ~store'.isLoading
       /\ (\A k \in CallSlots : calls'[k] = "idle") => ~store'.isLoading]_vars

\* A failed logout after a login: the store still holds the user and the
\* flag, and isLoading is back to false.
C30_FailedLogoutKeepsSession ==
    /\ store.isAuthenticated
    /\ store.user # {}
    /\ store.error = {"Error logging out"}
    /\ ~store.isLoading
    /\ \A k \in CallSlots : calls[k] = "idle"

====
